---- MODULE Spec2Model ----
(***************************************************************************)
(* pngme: the chunk-type code, the chunk codec with its CRC-32, the PNG    *)
(* container and the four commands, as a state machine.                    *)
(*                                                                         *)
(* Representation of Rust values                                           *)
(*   u8        an integer in 0..255                                        *)
(*   u32/usize a record [hi, lo] standing for hi * 65536 + lo with         *)
(*             lo in 0..65535 (a u32 has hi in 0..65535 as well); the      *)
(*             checker's integers stop at 2^31 - 1, a u32 does not         *)
(*   Vec<u8>, &[u8], String, &str                                          *)
(*             a sequence of items; an item in 0..255 is that byte and a   *)
(*             negative item -q is a run of 16 * q zero bytes, so that a   *)
(*             vector of 2^31 or 2^32 + 1 bytes can be written down.       *)
(*             Norm gives the one canonical writing of a vector.           *)
(*   Result    [ok |-> TRUE, ...] or [ok |-> FALSE, err |-> reason]        *)
(***************************************************************************)
EXTENDS Integers, Sequences, FiniteSets, TLC

VARIABLES png, fs, last

vars == <<png, fs, last>>

-----------------------------------------------------------------------------
(* Wide unsigned integers                                                  *)

Limb == 2 ^ 16

W(n) == [hi |-> n \div Limb, lo |-> n % Limb]

WAdd(a, b) ==
    [hi |-> a.hi + b.hi + ((a.lo + b.lo) \div Limb), lo |-> (a.lo + b.lo) % Limb]

WLess(a, b) == a.hi < b.hi \/ (a.hi = b.hi /\ a.lo < b.lo)

\* `x as u32`: the value modulo 2^32
AsU32(w) == [hi |-> w.hi % Limb, lo |-> w.lo]

\* usize::try_from(u32), for a value the checker's integers hold
ToNat(w) == w.hi * Limb + w.lo

from_be_bytes(b) == [hi |-> b[1] * 256 + b[2], lo |-> b[3] * 256 + b[4]]

to_be_bytes(v) == <<v.hi \div 256, v.hi % 256, v.lo \div 256, v.lo % 256>>

-----------------------------------------------------------------------------
(* Byte vectors                                                            *)

Block == 2 ^ 4

\* a run of Block * q + r zero bytes, r < Block
ZeroRun(q, r) == [i \in 1..r |-> 0] \o (IF q > 0 THEN <<-q>> ELSE <<>>)

\* TRUE, and v has been evaluated: the checker evaluates the argument of
\* an operator only where it is first used, which nests a long iteration
\* too deeply; the iterations below are done in halves, the first half
\* evaluated before the second starts.
Evaluated(v) == v = v

\* st.out is the canonical writing of the items read so far, but for the
\* run of Block * st.q + st.r zero bytes that ends them
NormStep(st, x) ==
    IF x > 0 THEN [out |-> (st.out \o ZeroRun(st.q, st.r)) \o <<x>>, q |-> 0, r |-> 0]
    ELSE IF x < 0 THEN [st EXCEPT !.q = st.q - x]
    ELSE IF st.r + 1 = Block THEN [st EXCEPT !.q = st.q + 1, !.r = 0]
    ELSE [st EXCEPT !.r = st.r + 1]

RECURSIVE NormFold(_, _, _, _)
NormFold(st, v, from, to) ==
    IF from > to THEN st
    ELSE IF from = to THEN NormStep(st, v[from])
    ELSE LET mid  == (from + to) \div 2
             half == NormFold(st, v, from, mid)
         IN  IF Evaluated(half) THEN NormFold(half, v, mid + 1, to) ELSE half

\* the canonical writing: a maximal run of Block * q + r zero bytes is r
\* zero items followed, when q > 0, by the item -q
Norm(v) ==
    IF Cardinality({i \in DOMAIN v : v[i] <= 0}) < Block /\ \A i \in DOMAIN v : v[i] >= 0
    THEN v
    ELSE LET st == NormFold([out |-> <<>>, q |-> 0, r |-> 0], v, 1, Len(v))
         IN  st.out \o ZeroRun(st.q, st.r)

RECURSIVE RunBlocks(_)
RunBlocks(s) == IF s = <<>> THEN 0 ELSE RunBlocks(Tail(s)) - Head(s)

\* slice::len, Vec::len
VLen(v) ==
    LET runs == SelectSeq(v, LAMBDA x : x < 0)
        q    == RunBlocks(runs)
    IN  WAdd([hi |-> q \div (Limb \div Block), lo |-> (q % (Limb \div Block)) * Block],
             W(Len(v) - Len(runs)))

\* the first n bytes of v and what follows them, before Norm
RECURSIVE split_at(_, _)
split_at(v, n) ==
    LET runs == {i \in DOMAIN v : v[i] < 0}
        k    == IF runs = {} THEN Len(v) + 1
                ELSE CHOOSE i \in runs : \A j \in runs : i <= j
        m    == n - (k - 1)
        mq   == m \div Block
        mr   == m % Block
        q    == -v[k]
    IN  IF n < k
        THEN [ok |-> TRUE, bytes |-> SubSeq(v, 1, n), rest |-> SubSeq(v, n + 1, Len(v))]
        ELSE IF k > Len(v) THEN [ok |-> FALSE, err |-> "UnexpectedEof"]
        ELSE IF mq < q \/ (mq = q /\ mr = 0)
        THEN [ok    |-> TRUE,
              bytes |-> SubSeq(v, 1, k - 1) \o ZeroRun(mq, mr),
              rest  |-> (IF mr = 0 THEN ZeroRun(q - mq, 0)
                         ELSE ZeroRun(q - mq - 1, Block - mr))
                        \o SubSeq(v, k + 1, Len(v))]
        ELSE LET r == split_at(SubSeq(v, k + 1, Len(v)), m - q * Block)
             IN  IF r.ok
                 THEN [ok |-> TRUE, bytes |-> SubSeq(v, 1, k) \o r.bytes, rest |-> r.rest]
                 ELSE r

\* Read::read_exact of n bytes from the head of the reader v: the bytes
\* read and the reader after them, or UnexpectedEof
read_exact(v, n) ==
    LET r == split_at(v, n)
    IN  IF r.ok THEN [ok |-> TRUE, bytes |-> Norm(r.bytes), rest |-> Norm(r.rest)] ELSE r

\* the vectors of ss one after another
RECURSIVE Flatten(_)
Flatten(ss) == IF ss = <<>> THEN <<>> ELSE Head(ss) \o Flatten(Tail(ss))

\* u8::is_ascii_alphabetic
is_ascii_alphabetic(b) == (b >= 65 /\ b <= 90) \/ (b >= 97 /\ b <= 122)

\* std::str::from_utf8 / String::from_utf8: is v well-formed UTF-8.
\* st.need is the number of continuation bytes still owed, st.lo..st.hi
\* the range the next one must lie in, st.ok whether all is well so far.
Utf8Start(n, lo, hi) == [ok |-> TRUE, need |-> n, lo |-> lo, hi |-> hi]

Utf8Step(st, x) ==
    LET b == IF x < 0 THEN 0 ELSE x
    IN  IF ~st.ok THEN st
        ELSE IF st.need > 0
        THEN IF b >= st.lo /\ b <= st.hi THEN Utf8Start(st.need - 1, 128, 191)
             ELSE [st EXCEPT !.ok = FALSE]
        ELSE IF b <= 127 THEN Utf8Start(0, 128, 191)
        ELSE IF b >= 194 /\ b <= 223 THEN Utf8Start(1, 128, 191)
        ELSE IF b = 224 THEN Utf8Start(2, 160, 191)
        ELSE IF b = 237 THEN Utf8Start(2, 128, 159)
        ELSE IF b >= 225 /\ b <= 239 THEN Utf8Start(2, 128, 191)
        ELSE IF b = 240 THEN Utf8Start(3, 144, 191)
        ELSE IF b = 244 THEN Utf8Start(3, 128, 143)
        ELSE IF b >= 241 /\ b <= 243 THEN Utf8Start(3, 128, 191)
        ELSE [st EXCEPT !.ok = FALSE]

RECURSIVE Utf8Fold(_, _, _, _)
Utf8Fold(st, v, from, to) ==
    IF from > to THEN st
    ELSE IF from = to THEN Utf8Step(st, v[from])
    ELSE LET mid  == (from + to) \div 2
             half == Utf8Fold(st, v, from, mid)
         IN  IF Evaluated(half) THEN Utf8Fold(half, v, mid + 1, to) ELSE half

is_utf8(v) ==
    LET st == Utf8Fold(Utf8Start(0, 128, 191), v, 1, Len(v))
    IN  st.ok /\ st.need = 0

-----------------------------------------------------------------------------
(* CRC-32/ISO-HDLC: reflected polynomial 0xEDB88320, initial value and     *)
(* final xor 0xFFFFFFFF                                                    *)

RECURSIVE BitXor(_, _)
BitXor(a, b) ==
    IF a = 0 THEN b
    ELSE IF b = 0 THEN a
    ELSE ((a + b) % 2) + 2 * BitXor(a \div 2, b \div 2)

\* BitXor on 0..15, tabulated: XorNibble[16 * a + b + 1]
RECURSIVE XorEntries(_, _)
XorEntries(from, to) ==
    IF from = to THEN <<BitXor(from \div 16, from % 16)>>
    ELSE XorEntries(from, (from + to) \div 2) \o XorEntries((from + to) \div 2 + 1, to)

XorNibble == XorEntries(0, 255)

\* xor of two values below 2^k, four bits at a time
RECURSIVE XorBits(_, _, _)
XorBits(a, b, k) ==
    IF k = 0 THEN 0
    ELSE XorNibble[16 * (a % 16) + (b % 16) + 1] + 16 * XorBits(a \div 16, b \div 16, k - 4)

Xor16(a, b) == XorBits(a, b, 16)

Xor32(a, b) == [hi |-> Xor16(a.hi, b.hi), lo |-> Xor16(a.lo, b.lo)]

Shr32(a, n) ==
    LET p == 2 ^ n
    IN  [hi |-> a.hi \div p, lo |-> (a.hi % p) * (Limb \div p) + a.lo \div p]

Bit32(v, i) == IF i < 16 THEN (v.lo \div (2 ^ i)) % 2 ELSE (v.hi \div (2 ^ (i - 16))) % 2

CrcPoly == [hi |-> 60856, lo |-> 33568]

AllOnes == [hi |-> 65535, lo |-> 65535]

Zero32 == [hi |-> 0, lo |-> 0]

\* one step of the bit-serial register
CrcShift(c) == IF c.lo % 2 = 1 THEN Xor32(Shr32(c, 1), CrcPoly) ELSE Shr32(c, 1)

\* the register after n steps
RECURSIVE CrcSteps(_, _)
CrcSteps(c, n) == IF n = 0 THEN c ELSE CrcSteps(CrcShift(c), n - 1)

CrcByte(c) == CrcSteps(c, 8)

\* the table of the byte-wise algorithm: CrcTable[i + 1] for the byte i
RECURSIVE CrcEntries(_, _)
CrcEntries(from, to) ==
    IF from = to THEN <<CrcByte([hi |-> 0, lo |-> from])>>
    ELSE CrcEntries(from, (from + to) \div 2) \o CrcEntries((from + to) \div 2 + 1, to)

CrcTable == CrcEntries(0, 255)

CrcUpdate(c, b) == Xor32(CrcTable[Xor16(c.lo % 256, b) + 1], Shr32(c, 8))

\* The register after a run of zero bytes is the register times x^(8n)
\* modulo the polynomial. MulModP is that product (0x80000000 is 1), by
\* shift and add: before step i (from 31 down to 0) t.b is b * x^(31 - i)
\* and t.p the sum of the terms so far.
MulStep(a, t, i) ==
    [b |-> CrcShift(t.b), p |-> IF Bit32(a, i) = 1 THEN Xor32(t.p, t.b) ELSE t.p]

RECURSIVE MulSteps(_, _, _, _)
MulSteps(a, t, from, to) ==
    IF from = to THEN MulStep(a, t, from)
    ELSE LET mid  == (from + to + 1) \div 2
             half == MulSteps(a, t, from, mid)
         IN  IF Evaluated(half) THEN MulSteps(a, half, mid - 1, to) ELSE half

MulModP(a, b) == MulSteps(a, [b |-> b, p |-> Zero32], 31, 0).p

\* x^(8 * 2^k) is ZeroPower[k + 1]: each entry is the square of the one
\* before it
RECURSIVE Squares(_)
Squares(acc) ==
    IF Len(acc) = 36 THEN acc
    ELSE Squares(Append(acc, MulModP(acc[Len(acc)], acc[Len(acc)])))

ZeroPower == Squares(<<[hi |-> 128, lo |-> 0]>>)

\* the register c after the zero bytes that the bits from..to of q stand
\* for, bit j of q being Block * 2^j bytes
RECURSIVE PowBits(_, _, _, _)
PowBits(q, c, from, to) ==
    IF from = to
    THEN IF (q \div (2 ^ from)) % 2 = 1 THEN MulModP(ZeroPower[from + 5], c) ELSE c
    ELSE LET mid  == (from + to) \div 2
             half == PowBits(q, c, from, mid)
         IN  IF Evaluated(half) THEN PowBits(q, half, mid + 1, to) ELSE half

\* the register c after q runs of Block zero bytes
CrcZeros(c, q) == PowBits(q, c, 0, 30)

\* the register after the items from..to of s
RECURSIVE CrcFold(_, _, _, _)
CrcFold(c, s, from, to) ==
    IF from > to THEN c
    ELSE IF from = to
    THEN IF s[from] < 0 THEN CrcZeros(c, -s[from]) ELSE CrcUpdate(c, s[from])
    ELSE LET mid  == (from + to) \div 2
             half == CrcFold(c, s, from, mid)
         IN  IF Evaluated(half) THEN CrcFold(half, s, mid + 1, to) ELSE half

\* Crc::<u32>::new(&CRC_32_ISO_HDLC).checksum(bytes)
checksum(bytes) == Xor32(CrcFold(AllOnes, bytes, 1, Len(bytes)), AllOnes)

-----------------------------------------------------------------------------
(* chunk_type.rs                                                           *)

RECURSIVE BitAnd(_, _)
BitAnd(a, b) ==
    IF a = 0 \/ b = 0 THEN 0
    ELSE (a % 2) * (b % 2) + 2 * BitAnd(a \div 2, b \div 2)

\* 1 << n
Shl1(n) == 2 ^ n

\* ChunkType::bytes
bytes(t) == t.raw_bytes

is_critical(t) == BitAnd(t.raw_bytes[1], Shl1(5)) = 0

\* a faulty is_public, which tests the first byte: C8 must tell it apart
is_public_first_byte(t) == BitAnd(t.raw_bytes[1], Shl1(5)) = 0

is_public(t) == BitAnd(t.raw_bytes[2], Shl1(5)) = 0

is_reserved_bit_valid(t) == BitAnd(t.raw_bytes[3], Shl1(5)) = 0

is_safe_to_copy(t) == BitAnd(t.raw_bytes[4], Shl1(5)) # 0

is_valid(t) ==
    (\A i \in 1..4 : is_ascii_alphabetic(t.raw_bytes[i])) /\ is_reserved_bit_valid(t)

\* a faulty try_from, which validates the bytes as from_str does: C6 must
\* tell it apart
try_from_letters_only(value) ==
    IF \A i \in DOMAIN value : is_ascii_alphabetic(value[i])
    THEN [ok |-> TRUE, val |-> [raw_bytes |-> value]]
    ELSE [ok |-> FALSE, err |-> "InvalidCharacter"]

\* impl TryFrom<[u8; 4]> for ChunkType
ChunkType_try_from(value) == [ok |-> TRUE, val |-> [raw_bytes |-> value]]

\* a faulty from_str, which looks at the characters before the length: C5
\* must tell it apart
from_str_chars_first(s) ==
    IF ~(\A i \in DOMAIN s : is_ascii_alphabetic(s[i]))
    THEN [ok |-> FALSE, err |-> "InvalidCharacter"]
    ELSE IF VLen(s) # W(4)
    THEN [ok |-> FALSE, err |-> "ByteLengthError", len |-> VLen(s)]
    ELSE [ok |-> TRUE, val |-> [raw_bytes |-> s]]

\* impl FromStr for ChunkType; s is the UTF-8 writing of the &str
ChunkType_from_str(s) ==
    IF VLen(s) # W(4)
    THEN [ok |-> FALSE, err |-> "ByteLengthError", len |-> VLen(s)]
    ELSE IF ~(\A i \in DOMAIN s : is_ascii_alphabetic(s[i]))
    THEN [ok |-> FALSE, err |-> "InvalidCharacter"]
    ELSE [ok |-> TRUE, val |-> [raw_bytes |-> s]]

\* a faulty Display, which writes three of the four bytes: C3 must tell it
\* apart
ChunkType_fmt_three_bytes(t) ==
    IF is_utf8(t.raw_bytes) THEN [ok |-> TRUE, text |-> SubSeq(t.raw_bytes, 1, 3)]
    ELSE [ok |-> FALSE, err |-> "fmt::Error"]

\* impl Display for ChunkType
ChunkType_fmt(t) ==
    IF is_utf8(t.raw_bytes) THEN [ok |-> TRUE, text |-> t.raw_bytes]
    ELSE [ok |-> FALSE, err |-> "fmt::Error"]

-----------------------------------------------------------------------------
(* chunk.rs                                                                *)

MAXIMUM_LENGTH == 2147483647

\* a faulty Chunk::new, whose checksum leaves the type bytes out: C1 must
\* tell it apart
Chunk_new_data_only(chunk_type, data) ==
    [length     |-> AsU32(VLen(data)),
     chunk_type |-> chunk_type,
     chunk_data |-> data,
     crc        |-> checksum(Norm(data))]

\* Chunk::new
Chunk_new(chunk_type, data) ==
    [length     |-> AsU32(VLen(data)),
     chunk_type |-> chunk_type,
     chunk_data |-> data,
     crc        |-> checksum(Norm(bytes(chunk_type) \o data))]

\* impl TryFrom<&[u8]> for Chunk, its steps last to first; each takes what
\* the steps before it have read.

\* the comparison of the checksum read with the one computed
decode_check(length, chunk_type, chunk_data, provided_crc, crc) ==
    IF provided_crc # crc THEN [ok |-> FALSE, err |-> "BadCrc"]
    ELSE [ok  |-> TRUE,
          val |-> [length |-> length, chunk_type |-> chunk_type,
                   chunk_data |-> chunk_data, crc |-> crc]]

\* r4 is the read of the checksum
decode_crc(length, chunk_type, chunk_data, r4) ==
    IF ~r4.ok THEN [ok |-> FALSE, err |-> r4.err]
    ELSE decode_check(length, chunk_type, chunk_data, from_be_bytes(r4.bytes),
                      checksum(Norm(bytes(chunk_type) \o chunk_data)))

\* ty is the chunk type made of the bytes read, r3 the read of length bytes
\* into chunk_data
decode_data(length, ty, r3) ==
    IF ~ty.ok THEN [ok |-> FALSE, err |-> ty.err]
    ELSE IF ~r3.ok THEN [ok |-> FALSE, err |-> r3.err]
    ELSE IF VLen(r3.bytes) # length THEN [ok |-> FALSE, err |-> "WrongDataLength"]
    ELSE decode_crc(length, ty.val, r3.bytes, read_exact(r3.rest, 4))

\* r2 is the read of the type
decode_type(length, r2) ==
    IF ~r2.ok THEN [ok |-> FALSE, err |-> r2.err]
    ELSE decode_data(length, ChunkType_try_from(r2.bytes), read_exact(r2.rest, ToNat(length)))

\* a faulty step, which reads the type before it checks the length: C10
\* must tell it apart
decode_length_after_type(r1) ==
    IF ~r1.ok THEN [ok |-> FALSE, err |-> r1.err]
    ELSE IF ~read_exact(r1.rest, 4).ok THEN [ok |-> FALSE, err |-> read_exact(r1.rest, 4).err]
    ELSE IF WLess(W(MAXIMUM_LENGTH), from_be_bytes(r1.bytes))
    THEN [ok |-> FALSE, err |-> "LengthTooLong"]
    ELSE decode_type(from_be_bytes(r1.bytes), read_exact(r1.rest, 4))

\* r1 is the read of the length
decode_length(r1) ==
    IF ~r1.ok THEN [ok |-> FALSE, err |-> r1.err]
    ELSE IF WLess(W(MAXIMUM_LENGTH), from_be_bytes(r1.bytes))
    THEN [ok |-> FALSE, err |-> "LengthTooLong"]
    ELSE decode_type(from_be_bytes(r1.bytes), read_exact(r1.rest, 4))

Chunk_try_from(value) == decode_length(read_exact(value, 4))

\* Chunk::data_as_string
data_as_string(c) ==
    IF is_utf8(c.chunk_data) THEN [ok |-> TRUE, text |-> c.chunk_data]
    ELSE [ok |-> FALSE, err |-> "FromUtf8Error"]

\* Chunk::as_bytes
as_bytes(c) ==
    Norm(((to_be_bytes(c.length) \o bytes(c.chunk_type)) \o c.chunk_data)
         \o to_be_bytes(c.crc))

\* impl Display for Chunk. The arguments of write! are evaluated first, so
\* the unwrap of data_as_string panics before anything is written; an Err
\* of the chunk type's own Display is passed on.
Chunk_fmt(c) ==
    IF ~data_as_string(c).ok THEN [ok |-> FALSE, err |-> "panic"]
    ELSE IF ~ChunkType_fmt(c.chunk_type).ok THEN [ok |-> FALSE, err |-> "fmt::Error"]
    ELSE [ok   |-> TRUE,
          text |-> (ChunkType_fmt(c.chunk_type).text \o <<9>>) \o data_as_string(c).text]

-----------------------------------------------------------------------------
(* png.rs: the container, a sequence of chunks behind the signature. The   *)
(* file is not among the sources: these definitions follow section 4.3 of  *)
(* the specification.                                                      *)

\* 89 50 4E 47 0D 0A 1A 0A
STANDARD_HEADER == <<137, 80, 78, 71, 13, 10, 26, 10>>

\* the input that follows the frame of the chunk c decoded from the head of v
AfterChunk(v, c) ==
    read_exact(read_exact(read_exact(v, 8).rest, ToNat(c.length)).rest, 4).rest

\* chunks are decoded one after another until the input is used up; the
\* first failure is the failure of the whole. r is the chunk decoded from
\* the head of v.
RECURSIVE decode_chunks(_, _)
RECURSIVE decode_next(_, _, _)
decode_next(v, acc, r) ==
    IF ~r.ok THEN r ELSE decode_chunks(AfterChunk(v, r.val), Append(acc, r.val))

decode_chunks(v, acc) ==
    IF v = <<>> THEN [ok |-> TRUE, val |-> acc] ELSE decode_next(v, acc, Chunk_try_from(v))

\* parse
Png_try_from(value) ==
    LET h == read_exact(value, 8)
    IN  IF ~h.ok \/ h.bytes # STANDARD_HEADER THEN [ok |-> FALSE, err |-> "BadSignature"]
        ELSE decode_chunks(h.rest, <<>>)

\* encode
Png_as_bytes(p) == Norm(STANDARD_HEADER \o Flatten([i \in DOMAIN p |-> as_bytes(p[i])]))

\* append
append_chunk(p, chunk) == Append(p, chunk)

\* the textual form of the type of c is t
type_matches(c, t) ==
    LET s == ChunkType_fmt(c.chunk_type) IN s.ok /\ s.text = t

\* the place of the first chunk of type t in p, 0 if there is none
first_match(p, t) ==
    LET m == {i \in DOMAIN p : type_matches(p[i], t)}
    IN  IF m = {} THEN 0 ELSE CHOOSE i \in m : \A j \in m : i <= j

\* findByType: an Option, written as a sequence of no or one chunk
chunk_by_type(p, t) ==
    IF first_match(p, t) = 0 THEN <<>> ELSE <<p[first_match(p, t)]>>

\* remove: the chunk removed and the container after it
remove_chunk(p, t) ==
    LET i == first_match(p, t)
    IN  IF i = 0 THEN [ok |-> FALSE, err |-> "ChunkNotFound", png |-> p]
        ELSE [ok |-> TRUE, val |-> p[i], png |-> SubSeq(p, 1, i - 1) \o SubSeq(p, i + 1, Len(p))]

-----------------------------------------------------------------------------
(* commands.rs: a command maps the file system to its effect: the file     *)
(* system after it, the paths written, the lines printed, the local png    *)
(* when it ended and how it ended: "Ok", "panic" or the error returned     *)

NoFile == <<-1, -1>>

\* fs::read
fs_read(fsys, path) ==
    IF fsys[path] = NoFile THEN [ok |-> FALSE, err |-> "NotFound"]
    ELSE [ok |-> TRUE, val |-> fsys[path]]

\* Png::try_from(input_bytes.as_slice()) on what fs::read gave
parse_read(input_bytes) ==
    IF ~input_bytes.ok THEN input_bytes ELSE Png_try_from(input_bytes.val)

\* fs::read(&args.input_file_path)? and Png::try_from(..)?, the opening of
\* all four commands
read_png(fsys, args) == parse_read(fs_read(fsys, args.input_file_path))

\* a command that returns Err(err) before it has written or printed
Failed(fsys, err) == [fs |-> fsys, wrote |-> {}, stdout |-> <<>>, png |-> <<>>, end |-> err]

\* fs::write(output, png.as_bytes())?; Ok(())
encode_write(fsys, output, grown) ==
    [fs     |-> [fsys EXCEPT ![output] = Png_as_bytes(grown)],
     wrote  |-> {output},
     stdout |-> <<>>,
     png    |-> grown,
     end    |-> "Ok"]

\* the chunk is made of the type, if the text is one, and appended
encode_chunk(fsys, args, parsed, ty) ==
    IF ~ty.ok THEN Failed(fsys, ty.err)
    ELSE encode_write(fsys,
                      IF args.output_file_path = <<>> THEN args.input_file_path
                      ELSE args.output_file_path[1],
                      append_chunk(parsed, Chunk_new(ty.val, args.message)))

encode_png(fsys, args, parsed) ==
    IF ~parsed.ok THEN Failed(fsys, parsed.err)
    ELSE encode_chunk(fsys, args, parsed.val, ChunkType_from_str(args.chunk_type))

encode(fsys, args) == encode_png(fsys, args, read_png(fsys, args))

\* println! of a chunk, whose Display gave shown: it panics when Display
\* fails, whichever way
println_chunk(fsys, wrote, parsed, title, shown) ==
    [fs     |-> fsys,
     wrote  |-> wrote,
     stdout |-> IF shown.ok THEN <<<<title, shown.text>>>> ELSE <<>>,
     png    |-> parsed,
     end    |-> IF shown.ok THEN "Ok" ELSE "panic"]

\* if let Some(c) = found
decode_found(fsys, parsed, found) ==
    IF found = <<>>
    THEN [fs |-> fsys, wrote |-> {}, stdout |-> <<>>, png |-> parsed, end |-> "Ok"]
    ELSE println_chunk(fsys, {}, parsed, "Decoded: ", Chunk_fmt(found[1]))

decode_png(fsys, args, parsed) ==
    IF ~parsed.ok THEN Failed(fsys, parsed.err)
    ELSE decode_found(fsys, parsed.val, chunk_by_type(parsed.val, args.chunk_type))

decode(fsys, args) == decode_png(fsys, args, read_png(fsys, args))

\* a faulty match, which writes the file in both arms: C4 must tell it apart
remove_match_writes_always(fsys, output, removed) ==
    IF removed.ok
    THEN println_chunk([fsys EXCEPT ![output] = Png_as_bytes(removed.png)], {output},
                       removed.png, "Removed chunk: ", Chunk_fmt(removed.val))
    ELSE [fs     |-> [fsys EXCEPT ![output] = Png_as_bytes(removed.png)],
          wrote  |-> {output},
          stdout |-> <<<<"Error removing chunk: ", removed.err>>>>,
          png    |-> removed.png,
          end    |-> "Ok"]

\* match png.remove_chunk(..): the file is written before the removed chunk
\* is printed
remove_match(fsys, output, removed) ==
    IF removed.ok
    THEN println_chunk([fsys EXCEPT ![output] = Png_as_bytes(removed.png)], {output},
                       removed.png, "Removed chunk: ", Chunk_fmt(removed.val))
    ELSE [fs     |-> fsys,
          wrote  |-> {},
          stdout |-> <<<<"Error removing chunk: ", removed.err>>>>,
          png    |-> removed.png,
          end    |-> "Ok"]

remove_png(fsys, args, parsed) ==
    IF ~parsed.ok THEN Failed(fsys, parsed.err)
    ELSE remove_match(fsys, args.input_file_path, remove_chunk(parsed.val, args.chunk_type))

remove(fsys, args) == remove_png(fsys, args, read_png(fsys, args))

\* for chunk in png.chunks() { println!("{}", chunk) }: the lines of the
\* chunks of p up to the first whose Display fails
RECURSIVE print_chunks(_, _)
RECURSIVE print_chunk(_, _, _)
print_chunk(p, out, shown) ==
    IF ~shown.ok THEN [stdout |-> out, end |-> "panic"]
    ELSE print_chunks(Tail(p), Append(out, <<"", shown.text>>))

print_chunks(p, out) ==
    IF p = <<>> THEN [stdout |-> out, end |-> "Ok"]
    ELSE print_chunk(p, out, Chunk_fmt(Head(p)))

print_all(fsys, parsed, printed) ==
    [fs |-> fsys, wrote |-> {}, stdout |-> printed.stdout, png |-> parsed, end |-> printed.end]

print_png(fsys, parsed) ==
    IF ~parsed.ok THEN Failed(fsys, parsed.err)
    ELSE print_all(fsys, parsed.val, print_chunks(parsed.val, <<>>))

print(fsys, args) == print_png(fsys, read_png(fsys, args))

run(fsys, command) ==
    CASE command.name = "encode" -> encode(fsys, command)
      [] command.name = "decode" -> decode(fsys, command)
      [] command.name = "remove" -> remove(fsys, command)
      [] command.name = "print"  -> print(fsys, command)

-----------------------------------------------------------------------------
(* Inputs                                                                  *)

MaxChars == 4

MaxData == 2

MaxKeep == 13

\* the characters texts are made of: @ A [ ` z { and e-acute (2 bytes)
TextChars == {<<64>>, <<65>>, <<91>>, <<96>>, <<122>>, <<123>>, <<195, 169>>}

RuSt == <<82, 117, 83, 116>>

\* "RuSt", "Rust", "Ru1t", "Rus", "teSt", "RuSts"
KnownTexts ==
    {RuSt, <<82, 117, 115, 116>>, <<82, 117, 49, 116>>, <<82, 117, 115>>,
     <<116, 101, 83, 116>>, <<82, 117, 83, 116, 115>>}

Texts ==
    KnownTexts \cup {Flatten(cs) : cs \in UNION {[1..k -> TextChars] : k \in 0..MaxChars}}

TypeBytes == {0, 32, 65, 82, 97, 117, 223, 255}

\* "This is where your secret message will be!"
SecretMessage ==
    <<84, 104, 105, 115, 32, 105, 115, 32, 119, 104, 101, 114, 101, 32, 121, 111,
      117, 114, 32, 115, 101, 99, 114, 101, 116, 32, 109, 101, 115, 115, 97, 103,
      101, 32, 119, 105, 108, 108, 32, 98, 101, 33>>

\* vectors of 2^31 - 1, 2^31 and 2^32 + 1 zero bytes
HugeData ==
    {Norm([i \in 1..15 |-> 0] \o <<-134217727>>), <<-134217728>>, <<0, -268435456>>}

SmallData == UNION {[1..k -> {72, 255}] : k \in 0..MaxData}

Payloads == SmallData \cup {SecretMessage} \cup HugeData

\* "RuSt", "IHDR", "Ru1t", four zero bytes, the first bytes of a JPEG
FrameTypes ==
    {RuSt, <<73, 72, 68, 82>>, <<82, 117, 49, 116>>, <<0, 0, 0, 0>>, <<255, 216, 255, 224>>}

DecodeTypes == {RuSt, <<0, 0, 0, 0>>, <<255, 216, 255, 224>>}

MaxChunks == 2

teSt == <<116, 101, 83, 116>>

\* the chunk that Chunk::new makes of the type bytes ty and the payload data
Made(ty, data) == Chunk_new(ChunkType_try_from(ty).val, data)

\* the chunk sequences of the files that are parsed
SomeChunks ==
    {<<>>, <<Made(teSt, <<72>>)>>, <<Made(RuSt, <<255>>), Made(teSt, <<72>>)>>}

\* a file with its first byte changed, its last byte dropped, its last byte
\* changed, a byte added, and its first five bytes
Damaged(f) ==
    {[f EXCEPT ![1] = 0], SubSeq(f, 1, Len(f) - 1),
     [f EXCEPT ![Len(f)] = (f[Len(f)] + 1) % 256], f \o <<0>>, SubSeq(f, 1, 5)}

ParseInputs ==
    {Png_as_bytes(cs) : cs \in SomeChunks}
    \cup Damaged(Png_as_bytes(<<Made(RuSt, <<255>>), Made(teSt, <<72>>)>>))

\* the payloads appended to a container: none, "H", 2^31 zero bytes
ContainerData == {<<>>, <<72>>, <<-134217728>>}

\* "RuSt", "teSt" and "Rust"
TypeTexts == {RuSt, teSt, <<82, 117, 115, 116>>}

Paths == {"in.png", "out.png"}

\* the files in.png starts as: three PNG files and the head of a GIF
InitialFiles == {Png_as_bytes(cs) : cs \in SomeChunks} \cup {<<71, 73, 70, 56>>}

\* v - 1 modulo 2^32
Pred32(v) ==
    IF v.lo > 0 THEN [v EXCEPT !.lo = v.lo - 1]
    ELSE IF v.hi > 0 THEN [hi |-> v.hi - 1, lo |-> Limb - 1]
    ELSE [hi |-> Limb - 1, lo |-> Limb - 1]

\* the length field of a frame: the payload's own length, 2^31 - 1, 2^31,
\* 2^32 - 1 or one less than the payload has
LengthField(how, data) ==
    CASE how = "own"  -> to_be_bytes(AsU32(VLen(data)))
      [] how = "max"  -> <<127, 255, 255, 255>>
      [] how = "over" -> <<128, 0, 0, 0>>
      [] how = "ones" -> <<255, 255, 255, 255>>
      [] how = "less" -> to_be_bytes(Pred32(AsU32(VLen(data))))

\* the checksum field of a frame: the right one or the one before it
CrcField(how, ty, data) ==
    CASE how = "good" -> to_be_bytes(checksum(Norm(ty \o data)))
      [] how = "bad"  -> to_be_bytes(Pred32(checksum(Norm(ty \o data))))

Frame(len, ty, data, crc, tail) ==
    Norm((((LengthField(len, data) \o ty) \o data) \o CrcField(crc, ty, data)) \o tail)

\* the first keep bytes of v, or all of v
Kept(v, keep) ==
    IF keep = MaxKeep + 1 \/ ~read_exact(v, keep).ok THEN v ELSE read_exact(v, keep).bytes

-----------------------------------------------------------------------------
(* The chunk type: construction from text and from bytes, and the flags    *)

Init ==
    /\ png = <<>>
    /\ fs = [p \in {"in.png", "out.png"} |-> NoFile]
    /\ last = [op |-> "init"]

\* One call per behaviour: a call is made in the initial state and its
\* arguments and result are kept in last.
FromStr(s) ==
    /\ last.op = "init"
    /\ last' = [op |-> "from_str", s |-> s, result |-> ChunkType_from_str(s)]
    /\ UNCHANGED <<png, fs>>

TypeFromBytes(value) ==
    LET r == ChunkType_try_from(value)
    IN  /\ last.op = "init"
        /\ last' = [op     |-> "type_try_from",
                    value  |-> value,
                    result |-> r,
                    flags  |-> IF r.ok
                               THEN [critical |-> is_critical(r.val),
                                     public   |-> is_public(r.val),
                                     reserved_bit_valid |-> is_reserved_bit_valid(r.val),
                                     safe_to_copy |-> is_safe_to_copy(r.val),
                                     valid    |-> is_valid(r.val),
                                     shown    |-> ChunkType_fmt(r.val)]
                               ELSE <<>>]
        /\ UNCHANGED <<png, fs>>

NextType ==
    \/ \E s \in Texts : FromStr(s)
    \/ \E value \in [1..4 -> TypeBytes] \cup KnownTexts : Len(value) = 4 /\ TypeFromBytes(value)

SpecType == Init /\ [][NextType]_vars

-----------------------------------------------------------------------------
(* The chunk: construction, decoding, encoding and display                 *)

\* Chunk::new on the type that ChunkType::try_from(ty).unwrap() gives
ChunkNew(ty, data) ==
    LET t == ChunkType_try_from(ty)
        c == Chunk_new(t.val, data)
    IN  /\ last.op = "init"
        /\ t.ok
        /\ last' = [op |-> "new", ty |-> ty, data |-> data, chunk |-> c,
                    encoded |-> as_bytes(c), shown |-> Chunk_fmt(c)]
        /\ UNCHANGED <<png, fs>>

\* what is kept of a call of Chunk::try_from on value with the result r
Decoded(value, r) ==
    [value   |-> value,
     result  |-> r,
     encoded |-> IF r.ok THEN as_bytes(r.val) ELSE <<>>,
     shown   |-> IF r.ok THEN Chunk_fmt(r.val) ELSE [ok |-> FALSE, err |-> "none"]]

\* what is kept of a call on value, all or the head of frame
DecodedOf(frame, value) ==
    [whole |-> (value = frame)] @@ Decoded(value, Chunk_try_from(value))

\* Chunk::try_from on the first keep bytes of a frame
ChunkDecode(len, ty, data, crc, tail, keep) ==
    /\ last.op = "init"
    /\ last' = [op |-> "decode", len |-> len, ty |-> ty, data |-> data, crc |-> crc,
                tail |-> tail]
               @@ DecodedOf(Frame(len, ty, data, crc, tail),
                            Kept(Frame(len, ty, data, crc, tail), keep))
    /\ UNCHANGED <<png, fs>>

\* decoding of frames around every payload but the bulk ones, cut short at
\* every place up to MaxKeep, and of whole frames around the bulk ones
NextChunk ==
    \/ \E ty \in FrameTypes, data \in Payloads : ChunkNew(ty, data)
    \/ \E len \in {"own", "max", "over", "ones", "less"}, ty \in DecodeTypes,
          data \in SmallData \cup {SecretMessage}, crc \in {"good", "bad"},
          tail \in {<<>>, <<0, 7>>}, keep \in 0..(MaxKeep + 1) :
            ChunkDecode(len, ty, data, crc, tail, keep)
    \/ \E len \in {"own", "max", "over", "less"}, data \in HugeData, crc \in {"good", "bad"} :
            ChunkDecode(len, RuSt, data, crc, <<>>, MaxKeep + 1)
    \/ \E value \in FrameTypes : TypeFromBytes(value)
    \/ \E s \in {t \in FrameTypes : is_utf8(t)} : FromStr(s)

SpecChunk == Init /\ [][NextChunk]_vars

-----------------------------------------------------------------------------
(* The container: parse, append, remove and find on one container          *)

\* Png::try_from has given r
Parsed(value, r) ==
    /\ r.ok => Len(r.val) <= MaxChunks
    /\ png' = IF r.ok THEN r.val ELSE png
    /\ last' = [op |-> "parse", value |-> value, result |-> r]
    /\ UNCHANGED fs

Parse(value) ==
    /\ Parsed(value, Png_try_from(value))

AppendChunk(t, data) ==
    LET ty    == ChunkType_from_str(t)
        chunk == Chunk_new(ty.val, data)
    IN  /\ ty.ok
        /\ Len(png) < MaxChunks
        /\ png' = append_chunk(png, chunk)
        /\ last' = [op |-> "append", chunk |-> chunk, before |-> png]
        /\ UNCHANGED fs

\* last.appended holds the append that came right before this remove
RemoveChunk(t) ==
    LET r == remove_chunk(png, t)
    IN  /\ png' = r.png
        /\ last' = [op |-> "remove", t |-> t, result |-> r, before |-> png,
                    appended |-> IF last.op = "append" THEN <<last>> ELSE <<>>]
        /\ UNCHANGED fs

FindChunk(t) ==
    /\ last' = [op |-> "find", t |-> t, result |-> chunk_by_type(png, t)]
    /\ UNCHANGED <<png, fs>>

Next ==
    \/ \E value \in ParseInputs : Parse(value)
    \/ \E t \in {RuSt, teSt}, data \in ContainerData : AppendChunk(t, data)
    \/ \E t \in TypeTexts : RemoveChunk(t)
    \/ \E t \in TypeTexts : FindChunk(t)

Spec == Init /\ [][Next]_vars

-----------------------------------------------------------------------------
(* The commands, on the files in.png and out.png                           *)

InitCmd ==
    /\ png = <<>>
    /\ \E f \in InitialFiles : fs = [p \in Paths |-> IF p = "in.png" THEN f ELSE NoFile]
    /\ last = [op |-> "init"]

\* a command has run to its end with this effect; files of more than
\* MaxChunks chunks are left out
Ran(command, effect) ==
    /\ Len(effect.png) <= MaxChunks
    /\ fs' = effect.fs
    /\ last' = [op |-> command.name, command |-> command, before |-> fs,
                effect |-> effect]
    /\ UNCHANGED png

Run(command) == Ran(command, run(fs, command))

Encode(input, output, t, message) ==
    /\ Run([name |-> "encode", input_file_path |-> input, output_file_path |-> output,
            chunk_type |-> t, message |-> message])

Decode(input, t) ==
    /\ Run([name |-> "decode", input_file_path |-> input, chunk_type |-> t])

Remove(input, t) ==
    /\ Run([name |-> "remove", input_file_path |-> input, chunk_type |-> t])

PrintFile(input) ==
    /\ Run([name |-> "print", input_file_path |-> input])

NextCmd ==
    \/ \E input \in Paths, output \in {<<>>, <<"out.png">>}, t \in {RuSt, <<82, 117, 49, 116>>} :
          Encode(input, output, t, <<72>>)
    \/ \E input \in Paths, t \in TypeTexts : Decode(input, t)
    \/ \E input \in Paths, t \in TypeTexts : Remove(input, t)
    \/ \E input \in Paths : PrintFile(input)

SpecCmd == InitCmd /\ [][NextCmd]_vars

-----------------------------------------------------------------------------
(* Properties of the chunk type, under SpecType                            *)

Letters == (65..90) \cup (97..122)

Bit5(b) == (b \div 32) % 2

\* C5: from_str succeeds exactly on the inputs of 4 bytes that are all ASCII
\* letters, and then stores the input bytes; an input of any other byte
\* length fails with the length error whatever its bytes are; an input of 4
\* bytes with a non-letter fails with InvalidCharacter.
C5_FromStrFourLetters ==
    last.op = "from_str" =>
        LET s       == last.s
            r       == last.result
            letters == \A i \in DOMAIN s : s[i] \in Letters
        IN  /\ r.ok <=> (Len(s) = 4 /\ letters)
            /\ r.ok => (r.val.raw_bytes = s)
            /\ (Len(s) # 4) => (~r.ok /\ r.err = "ByteLengthError" /\ r.len = W(Len(s)))
            /\ (Len(s) = 4 /\ ~letters) => (~r.ok /\ r.err = "InvalidCharacter")

\* a text of 5 bytes with a non-letter in it has been given the length error
C5_Witness ==
    /\ last.op = "from_str"
    /\ Len(last.s) = 5
    /\ \E i \in DOMAIN last.s : last.s[i] \notin Letters
    /\ ~last.result.ok
    /\ last.result.err = "ByteLengthError"

\* C8: for every 4-byte value each flag is the test of bit 5 of one byte:
\* critical iff clear in byte 0, public iff clear in byte 1,
\* reserved-bit-valid iff clear in byte 2, safe-to-copy iff set in byte 3;
\* "RuSt" is critical, not public, reserved-bit-valid and safe to copy, and
\* "Rust" is not reserved-bit-valid.
C8_FlagsTestBitFive ==
    last.op = "type_try_from" =>
        LET b == last.value
            f == last.flags
        IN  /\ last.result.ok
            /\ f.critical <=> (Bit5(b[1]) = 0)
            /\ f.public <=> (Bit5(b[2]) = 0)
            /\ f.reserved_bit_valid <=> (Bit5(b[3]) = 0)
            /\ f.safe_to_copy <=> (Bit5(b[4]) = 1)
            /\ (b = RuSt) =>
                   (f.critical /\ ~f.public /\ f.reserved_bit_valid /\ f.safe_to_copy)
            /\ (b = <<82, 117, 115, 116>>) => ~f.reserved_bit_valid

\* the flags of "RuSt" have been computed
C8_Witness ==
    /\ last.op = "type_try_from"
    /\ last.value = RuSt
    /\ last.flags.critical
    /\ ~last.flags.public
    /\ last.flags.safe_to_copy

-----------------------------------------------------------------------------
(* Properties of the chunk, under SpecChunk                                *)

\* 2882656334, the checksum of "RuSt" and the secret message
KnownCrc == [hi |-> 43985, lo |-> 55374]

\* the frame's length field is the payload's own length, which is in range
OwnLength == last.len = "own" /\ ~WLess(W(MAXIMUM_LENGTH), VLen(last.data))

\* the four bytes that follow the payload of the decoded chunk in the input
CrcBytesRead ==
    LET r3 == read_exact(read_exact(last.value, 8).rest, ToNat(last.result.val.length))
    IN  read_exact(r3.rest, 4).bytes

\* C1: a chunk carries the CRC-32 of its type bytes and payload: new
\* computes it from its arguments; decode returns a chunk only when the four
\* bytes after the payload are that checksum, and fails otherwise; "RuSt"
\* with the secret message has 2882656334, and its frame with 2882656333 is
\* rejected.
C1_CrcOfTypeAndPayload ==
    /\ last.op = "new" =>
          /\ last.chunk.crc = checksum(Norm(last.ty \o last.data))
          /\ (last.ty = RuSt /\ last.data = SecretMessage) => (last.chunk.crc = KnownCrc)
    /\ last.op = "decode" =>
          /\ last.result.ok =>
                LET c == last.result.val
                IN  /\ c.crc = checksum(Norm(c.chunk_type.raw_bytes \o c.chunk_data))
                    /\ CrcBytesRead = to_be_bytes(c.crc)
          /\ (OwnLength /\ last.whole) =>
                /\ last.result.ok <=> (last.crc = "good")
                /\ (last.crc = "bad") => (last.result.err = "BadCrc")
                /\ last.result.ok => (last.result.val.crc = checksum(Norm(last.ty \o last.data)))
          /\ (OwnLength /\ last.whole /\ last.ty = RuSt /\ last.data = SecretMessage) =>
                IF last.crc = "good" THEN last.result.val.crc = KnownCrc
                ELSE SubSeq(last.value, 51, 54) = <<171, 209, 216, 77>> /\ ~last.result.ok

\* the known frame with the checksum 2882656333 has been rejected
C1_Witness ==
    /\ last.op = "decode"
    /\ last.ty = RuSt
    /\ last.data = SecretMessage
    /\ last.len = "own"
    /\ last.whole
    /\ last.crc = "bad"
    /\ ~last.result.ok
    /\ last.result.err = "BadCrc"

\* C6: a frame of an in-range length, any four type bytes, the payload and
\* the right checksum decodes to a chunk with those type bytes; try_from on
\* a 4-byte array always succeeds; from_str on four bytes succeeds only if
\* all are ASCII letters.
C6_AnyTypeBytesDecode ==
    /\ (last.op = "decode" /\ OwnLength /\ last.whole /\ last.crc = "good") =>
          (last.result.ok /\ last.result.val.chunk_type.raw_bytes = last.ty)
    /\ last.op = "type_try_from" =>
          (last.result.ok /\ last.result.val.raw_bytes = last.value)
    /\ (last.op = "from_str" /\ Len(last.s) = 4) =>
          (last.result.ok <=> \A i \in 1..4 : last.s[i] \in Letters)

\* a frame whose type bytes are the first bytes of a JPEG has been decoded
C6_Witness ==
    /\ last.op = "decode"
    /\ last.ty = <<255, 216, 255, 224>>
    /\ last.result.ok
    /\ last.result.val.chunk_type.raw_bytes = <<255, 216, 255, 224>>

\* C7 as stated: for every chunk from new or decode the length field is the
\* number of payload bytes, and the encoding is the length, the type, the
\* payload and the checksum, 12 + length bytes in all.
C7_LengthIsPayloadSize ==
    (last.op = "new" \/ (last.op = "decode" /\ last.result.ok)) =>
        LET c == IF last.op = "new" THEN last.chunk ELSE last.result.val
        IN  /\ c.length = VLen(c.chunk_data)
            /\ last.encoded =
                  Norm(((to_be_bytes(c.length) \o c.chunk_type.raw_bytes) \o c.chunk_data)
                       \o to_be_bytes(c.crc))
            /\ VLen(last.encoded) = WAdd(W(12), c.length)

\* new has been given 2^32 + 1 bytes and has stored the length 1
C7_Truncated ==
    /\ last.op = "new"
    /\ VLen(last.data) = [hi |-> Limb, lo |-> 1]
    /\ last.chunk.length = W(1)

\* C9 as stated: the display of a chunk ends with the text or with an error
\* that is returned, never with a panic.
C9_DisplayNeverPanics ==
    (last.op = "new" \/ (last.op = "decode" /\ last.result.ok)) =>
        (last.shown.ok \/ last.shown.err # "panic")

\* a decoded chunk whose payload is the byte 255 has been displayed
C9_Panicked ==
    /\ last.op = "decode"
    /\ last.result.ok
    /\ last.result.val.chunk_data = <<255>>
    /\ ~last.shown.ok
    /\ last.shown.err = "panic"

\* the first 12 + length bytes of the input, length being its first four
FramePrefix ==
    LET a == read_exact(last.value, 12)
        b == read_exact(a.rest, ToNat(from_be_bytes(SubSeq(last.value, 1, 4))))
    IN  Norm(a.bytes \o b.bytes)

\* C10: decode fails as truncated on fewer than 4 bytes; else with
\* LengthTooLong on a length above 2^31 - 1, even if the input ends there;
\* else as truncated on fewer than 12 + length bytes; else its result is
\* that of the first 12 + length bytes alone, a chunk that encodes to them
\* or BadCrc.
C10_DecodeOrder ==
    last.op = "decode" =>
        LET v      == last.value
            r      == last.result
            length == from_be_bytes(SubSeq(v, 1, 4))
        IN  IF WLess(VLen(v), W(4)) THEN ~r.ok /\ r.err = "UnexpectedEof"
            ELSE IF v[1] >= 128 THEN ~r.ok /\ r.err = "LengthTooLong"
            ELSE IF WLess(VLen(v), WAdd(W(12), length)) THEN ~r.ok /\ r.err = "UnexpectedEof"
            ELSE /\ r = Chunk_try_from(FramePrefix)
                 /\ IF r.ok THEN last.encoded = FramePrefix ELSE r.err = "BadCrc"

\* an input that ends after a length field of 2^31 has been rejected for
\* its length
C10_Witness ==
    /\ last.op = "decode"
    /\ last.value = <<128, 0, 0, 0>>
    /\ ~last.result.ok
    /\ last.result.err = "LengthTooLong"

-----------------------------------------------------------------------------
(* Properties of the container, under Spec                                 *)

\* C2 as stated: the encoding of every container reached by parse, append
\* and remove parses to the same chunk sequence, which encodes to the same
\* bytes.
C2_RoundTrip ==
    LET encoded == Png_as_bytes(png)
        parsed  == Png_try_from(encoded)
    IN  parsed.ok /\ parsed.val = png /\ Png_as_bytes(parsed.val) = encoded

\* a chunk of 2^31 payload bytes has been appended and the encoding of the
\* container fails to parse
C2_Unparseable ==
    /\ last.op = "append"
    /\ last.chunk.length = [hi |-> 2 ^ 15, lo |-> 0]
    /\ ~Png_try_from(Png_as_bytes(png)).ok
    /\ Png_try_from(Png_as_bytes(png)).err = "LengthTooLong"

\* a remove of the type of the chunk k that was appended right before it
RemoveOfAppended ==
    /\ last.op = "remove"
    /\ last.appended # <<>>
    /\ last.t = last.appended[1].chunk.chunk_type.raw_bytes

\* the remove gave back the chunk appended and left the container as it
\* was before the append
Restored ==
    /\ last.result.ok
    /\ last.result.val = last.appended[1].chunk
    /\ png = last.appended[1].before

\* C3 as stated: append(k) followed by remove of k's type leaves the chunk
\* sequence as it was before the append and returns k, whatever the
\* container held.
C3_AppendThenRemove == RemoveOfAppended => Restored

\* C3 amended: append(k) followed by remove of k's type leaves the chunk
\* sequence as it was before the append and returns k, if no chunk of that
\* type was in the container before the append.
C3_AppendThenRemoveOfNewType ==
    (RemoveOfAppended
     /\ \A i \in DOMAIN last.appended[1].before :
           last.appended[1].before[i].chunk_type.raw_bytes # last.t) => Restored

\* a chunk has been appended to a container that holds a chunk of another
\* type, and removed again
C3_Witness ==
    /\ RemoveOfAppended
    /\ last.appended[1].before # <<>>
    /\ \A i \in DOMAIN last.appended[1].before :
          last.appended[1].before[i].chunk_type.raw_bytes # last.t
    /\ Restored

-----------------------------------------------------------------------------
(* Properties of the commands, under SpecCmd                               *)

\* the remove command has run on a file that parses
RemoveRan ==
    /\ last.op = "remove"
    /\ last.before[last.command.input_file_path] # NoFile
    /\ Png_try_from(last.before[last.command.input_file_path]).ok

====
